---- MODULE Spec2Model ----
(***************************************************************************)
(* Shape inference of the reshape operator                                 *)
(* (paddle/fluid/operators/reshape_op.cc): ReshapeOp::InferShape with its  *)
(* private helper ValidateShape, and ReshapeGradOp::InferShape.            *)
(*                                                                         *)
(* The InferShapeContext is the state: which variables exist, the dims and *)
(* LoD of X, Attr(shape), and the dims / LoD of Out and X@GRAD that the    *)
(* two InferShape routines write.  The locals of ValidateShape at the      *)
(* point where it returns or throws are kept as well, so that statements   *)
(* about what was (not) computed can be checked.                           *)
(***************************************************************************)
EXTENDS Integers, Sequences, FiniteSets, TLC

VARIABLES hasX, hasOut, hasOutGrad, xDims, xLoD, shape,
          outDims, outLoD, xGradDims,
          status, gradStatus,
          output_shape, need_copy_dim, capacity, inferred_dim

vars == <<hasX, hasOut, hasOutGrad, xDims, xLoD, shape,
          outDims, outLoD, xGradDims,
          status, gradStatus,
          output_shape, need_copy_dim, capacity, inferred_dim>>

(* ---------------------------- bounds ----------------------------------- *)
MaxRank == 2       \* longest Input(X) shape explored
MaxSpecLen == 3    \* longest Attr(shape) explored
MaxDim == 2        \* largest ordinary dimension extent explored

(* Two extents a std::vector<int> can hold whose products leave the 32-bit *)
(* int in which ValidateShape accumulates: BigDim squared is 2^32, IntMax  *)
(* squared is 2^62 - 2^32 + 1.                                             *)
BigDim == 2 ^ 16
IntMax == 32767 * 65536 + 65535

(* --------------------------- value domains ----------------------------- *)
\* Input(X) dims: positive extents
DimVals == 1 .. MaxDim
\* Attr(shape) entries: an invalid negative, -1, 0, ordinary extents and the
\* two large ones
SpecVals == (-2 .. MaxDim) \cup {BigDim, IntMax}

SeqsUpTo(S, lo, hi) == UNION {[1 .. n -> S] : n \in lo .. hi}

InputShapes == SeqsUpTo(DimVals, 1, MaxRank)
ShapeSpecs == SeqsUpTo(SpecVals, 0, MaxSpecLen)

\* opaque LoD descriptors attached to X; NoLoD is what Out carries before
\* any ShareLoD
NoLoD == "lod_unset"
LoDs == {"lodA", "lodB"}

\* a DDim that was never set
NoDims == <<>>
\* capacity and inferred_dim are kept as <<v>> once ValidateShape has given
\* them the value v; NoVal is the local that was never declared or assigned
NoVal == <<>>

(* --------------------- 32-bit int multiplication ----------------------- *)
\* product of two 16-bit unsigned values as <<high 16 bits, low 16 bits>>,
\* computed through 8-bit pieces of b so nothing exceeds 31 bits
Mul16(a, b) ==
    LET p1 == a * (b \div 256)
        p0 == a * (b % 256)
        low == (p1 % 256) * 256 + p0
    IN  <<((p1 \div 256) + (low \div 65536)) % 65536, low % 65536>>

\* std::multiplies<int> on a 32-bit two's complement int: the product
\* modulo 2^32, read back as a signed value
Mul32(a, b) ==
    LET ah == (a \div 65536) % 65536
        al == a % 65536
        bh == (b \div 65536) % 65536
        bl == b % 65536
        ll == Mul16(al, bl)
        rh == (ll[1] + Mul16(ah, bl)[2] + Mul16(al, bh)[2]) % 65536
        rl == ll[2]
    IN  IF rh >= 32768 THEN (rh - 65536) * 65536 + rl ELSE rh * 65536 + rl

\* std::accumulate(shape.begin(), shape.end(), 1, std::multiplies<int>())
RECURSIVE Accumulate(_, _)
Accumulate(s, init) ==
    IF s = <<>> THEN init ELSE Accumulate(Tail(s), Mul32(init, Head(s)))

\* framework::product(DDim): int64 product of the extents
RECURSIVE product(_)
product(d) == IF d = <<>> THEN 1 ELSE Head(d) * product(Tail(d))

(* -------------------------- ValidateShape ------------------------------ *)
\* PADDLE_ENFORCE(shape[i] >= 0 || shape[i] == unknown_index, ...)
DimIsLegal(d) == d >= 0 \/ d = -1

\* faulty variant: the bound check off by one
ZeroIndexInRange_LE(i, x_rank) == i <= x_rank

\* PADDLE_ENFORCE_LT(i, x_rank, ...) for a 0 at (0-based) position i
ZeroIndexInRange(i, x_rank) == i < x_rank

\* faulty variant: two unknown dimensions tolerated
UnknownCountOK_Two(n) == n <= 2

\* PADDLE_ENFORCE_LE(neg_dims_idx.size(), 1, ...)
UnknownCountOK(n) == n <= 1

\* faulty variant: the loop split in two passes, every entry checked for legality
\* before any 0 is checked against the rank
RECURSIVE ZeroPass(_, _, _, _, _)
ZeroPass(s, x_rank, i, neg_dims_idx, need_dim_copy) ==
    IF i > Len(s)
    THEN [err |-> "OK", neg_dims_idx |-> neg_dims_idx,
          need_dim_copy |-> need_dim_copy]
    ELSE IF s[i] = -1
    THEN ZeroPass(s, x_rank, i + 1, Append(neg_dims_idx, i), need_dim_copy)
    ELSE IF s[i] = 0
    THEN IF ~(i - 1 < x_rank)
         THEN [err |-> "IndexOutOfRangeError", neg_dims_idx |-> neg_dims_idx,
               need_dim_copy |-> need_dim_copy]
         ELSE ZeroPass(s, x_rank, i + 1, neg_dims_idx, TRUE)
    ELSE ZeroPass(s, x_rank, i + 1, neg_dims_idx, need_dim_copy)

ValidateLoop_TwoPass(s, x_rank, i, neg_dims_idx, need_dim_copy) ==
    IF \E k \in i .. Len(s) : ~(s[k] >= 0 \/ s[k] = -1)
    THEN [err |-> "InvalidDimensionError", neg_dims_idx |-> neg_dims_idx,
          need_dim_copy |-> need_dim_copy]
    ELSE ZeroPass(s, x_rank, i, neg_dims_idx, need_dim_copy)

\* The for loop over shape; i is the 1-based index of the element looked
\* at next (0-based position i - 1).  Yields the error thrown inside the
\* loop, or "OK" with neg_dims_idx and need_dim_copy as the loop leaves them.
RECURSIVE ValidateLoop(_, _, _, _, _)
ValidateLoop(s, x_rank, i, neg_dims_idx, need_dim_copy) ==
    IF i > Len(s)
    THEN [err |-> "OK", neg_dims_idx |-> neg_dims_idx,
          need_dim_copy |-> need_dim_copy]
    ELSE IF ~DimIsLegal(s[i])
    THEN [err |-> "InvalidDimensionError", neg_dims_idx |-> neg_dims_idx,
          need_dim_copy |-> need_dim_copy]
    ELSE IF s[i] = -1
    THEN ValidateLoop(s, x_rank, i + 1, Append(neg_dims_idx, i), need_dim_copy)
    ELSE IF s[i] = 0
    THEN IF ~ZeroIndexInRange(i - 1, x_rank)
         THEN [err |-> "IndexOutOfRangeError", neg_dims_idx |-> neg_dims_idx,
               need_dim_copy |-> need_dim_copy]
         ELSE ValidateLoop(s, x_rank, i + 1, neg_dims_idx, TRUE)
    ELSE ValidateLoop(s, x_rank, i + 1, neg_dims_idx, need_dim_copy)

\* faulty variant: the resize without the transform
CopyShape_ResizeOnly(s) == [i \in 1 .. Len(s) |-> 0]

\* output_shape.resize(shape.size(), 0); std::transform(... static_cast<int64_t>)
CopyShape(s) == [i \in 1 .. Len(s) |-> s[i]]

\* int64 a / b of C++ (b # 0): the quotient truncated towards zero
TruncDiv(a, b) ==
    LET q == (IF a < 0 THEN -a ELSE a) \div (IF b < 0 THEN -b ELSE b)
    IN  IF (a < 0) = (b < 0) THEN q ELSE -q

\* PADDLE_ENFORCE_EQ(inferred_dim * (-capacity), in_size, ...)
DivisionIsExact(inf, negcap, in_size) == inf * negcap = in_size

\* The -1 branch.  capacity is the 32-bit product of ALL entries (the -1
\* included), so -capacity is the divisor.  When the product wraps to 0 the
\* int64 division in_size / 0 is undefined: trap = TRUE is the build that
\* raises SIGFPE, trap = FALSE the one whose divide instruction yields 0.
InferUnknownDim(s, in_size, out, idx, trap) ==
    LET cap == Accumulate(s, 1)
        negcap == -cap
    IN  IF negcap = 0 /\ trap
        THEN [err |-> "SIGFPE", need_dim_copy |-> FALSE, output_shape |-> out,
              capacity |-> <<cap>>, inferred_dim |-> <<0>>]
        ELSE LET inf == IF negcap = 0 THEN 0 ELSE TruncDiv(in_size, negcap)
             IN  IF ~DivisionIsExact(inf, negcap, in_size)
                 THEN [err |-> "ShapeMismatchError", need_dim_copy |-> FALSE,
                       output_shape |-> out, capacity |-> <<cap>>,
                       inferred_dim |-> <<inf>>]
                 ELSE [err |-> "OK", need_dim_copy |-> FALSE,
                       output_shape |-> [out EXCEPT ![idx] = inf],
                       capacity |-> <<cap>>, inferred_dim |-> <<inf>>]

\* bool ValidateShape(shape, input_dim, output_shape): the error thrown (or
\* "OK"), the returned flag, and the locals as they are on exit
ValidateShape(s, input_dim, trap) ==
    LET in_size == product(input_dim)
        x_rank == Len(input_dim)
        loop == ValidateLoop(s, x_rank, 1, <<>>, FALSE)
    IN  IF loop.err # "OK"
        THEN [err |-> loop.err, need_dim_copy |-> loop.need_dim_copy,
              output_shape |-> <<>>, capacity |-> NoVal, inferred_dim |-> NoVal]
        ELSE IF ~UnknownCountOK(Len(loop.neg_dims_idx))
        THEN [err |-> "MultipleInferredDimsError",
              need_dim_copy |-> loop.need_dim_copy,
              output_shape |-> <<>>, capacity |-> NoVal, inferred_dim |-> NoVal]
        ELSE IF loop.need_dim_copy
        THEN [err |-> "OK", need_dim_copy |-> TRUE,
              output_shape |-> CopyShape(s), capacity |-> NoVal,
              inferred_dim |-> NoVal]
        ELSE IF Len(loop.neg_dims_idx) > 0
        THEN InferUnknownDim(s, in_size, CopyShape(s), loop.neg_dims_idx[1], trap)
        ELSE [err |-> "OK", need_dim_copy |-> FALSE,
              output_shape |-> CopyShape(s), capacity |-> NoVal,
              inferred_dim |-> <<0>>]

(* ------------------------ InferShapeContext ---------------------------- *)
\* faulty variant: the LoD is not shared
ShareLoD_Dropped(lod) == NoLoD

\* ctx->ShareLoD("X", "Out"): the LoD Out ends up with
ShareLoD(lod) == lod

\* ctx->SetOutputDim("Out", ...) of ReshapeOp::InferShape
ForwardOutDim(need_copy, x_dims, out_shape) ==
    IF need_copy THEN x_dims ELSE out_shape

\* faulty variant: X@GRAD shaped like Out
GradOutDim_Out(x_dims, out_dims) == out_dims

\* ctx->SetOutputDim(GradVarName("X"), ctx->GetInputDim("X"))
GradOutDim(x_dims, out_dims) == x_dims

Errors == {"MissingInput", "MissingOutput", "EmptySpecError",
           "InvalidDimensionError", "IndexOutOfRangeError",
           "MultipleInferredDimsError", "ShapeMismatchError", "SIGFPE"}

(* ------------------------------ state ---------------------------------- *)
Init ==
    /\ hasX \in BOOLEAN
    /\ hasOut \in BOOLEAN
    /\ hasOutGrad = FALSE
    /\ xDims \in (IF hasX THEN InputShapes ELSE {NoDims})
    /\ xLoD \in (IF hasX THEN LoDs ELSE {NoLoD})
    /\ shape \in ShapeSpecs
    /\ outDims = NoDims
    /\ outLoD = NoLoD
    /\ xGradDims = NoDims
    /\ status = "NotRun"
    /\ gradStatus = "NotRun"
    /\ output_shape = <<>>
    /\ need_copy_dim = FALSE
    /\ capacity = NoVal
    /\ inferred_dim = NoVal

\* the context's inputs and attributes, which InferShape only reads
Inputs == <<hasX, hasOut, xDims, xLoD, shape>>

\* ReshapeOp::InferShape throwing err before ValidateShape is entered
ForwardThrowsEarly(err) ==
    /\ status' = err
    /\ UNCHANGED <<outDims, outLoD, output_shape, need_copy_dim,
                   capacity, inferred_dim>>

\* SetOutputDim and ShareLoD of ReshapeOp::InferShape
SetOutput(r) ==
    /\ outDims' = ForwardOutDim(r.need_dim_copy, xDims, r.output_shape)
    /\ outLoD' = ShareLoD(xLoD)

\* faulty variant: Out is written whatever ValidateShape did
AfterValidate_Always(r) == SetOutput(r)

\* what follows the call of ValidateShape: reached only when it returned
AfterValidate(r) ==
    IF r.err = "OK" THEN SetOutput(r) ELSE UNCHANGED <<outDims, outLoD>>

\* ReshapeOp::InferShape
ReshapeOp_InferShape ==
    /\ status = "NotRun"
    /\ UNCHANGED <<Inputs, hasOutGrad, xGradDims, gradStatus>>
    /\ IF ~hasX THEN ForwardThrowsEarly("MissingInput")
       ELSE IF ~hasOut THEN ForwardThrowsEarly("MissingOutput")
       ELSE IF shape = <<>> THEN ForwardThrowsEarly("EmptySpecError")
       ELSE \E trap \in BOOLEAN :
              LET r == ValidateShape(shape, xDims, trap)
              IN  /\ status' = r.err
                  /\ output_shape' = r.output_shape
                  /\ need_copy_dim' = r.need_dim_copy
                  /\ capacity' = r.capacity
                  /\ inferred_dim' = r.inferred_dim
                  /\ AfterValidate(r)

\* ReshapeGradOp::InferShape.  The gradient op is appended after the forward
\* op was built, and only then does Out@GRAD exist or not: outGrad is
\* whether the backward pass created it.  The routine shares nothing with
\* the forward one but the read-only X, so fixing this order loses nothing.
ReshapeGradOp_InferShape ==
    /\ status # "NotRun"
    /\ gradStatus = "NotRun"
    /\ UNCHANGED <<Inputs, outDims, outLoD, status, output_shape,
                   need_copy_dim, capacity, inferred_dim>>
    /\ \E outGrad \in BOOLEAN :
         /\ hasOutGrad' = outGrad
         /\ IF ~hasX THEN gradStatus' = "MissingInput" /\ UNCHANGED xGradDims
            ELSE IF ~outGrad
            THEN gradStatus' = "MissingOutGrad" /\ UNCHANGED xGradDims
            ELSE /\ gradStatus' = "OK"
                 /\ xGradDims' = GradOutDim(xDims, outDims)

Next == ReshapeOp_InferShape \/ ReshapeGradOp_InferShape

Spec == Init /\ [][Next]_vars

TypeOK ==
    /\ status \in Errors \cup {"OK", "NotRun"}
    /\ gradStatus \in {"NotRun", "OK", "MissingInput", "MissingOutGrad"}
    /\ need_copy_dim \in BOOLEAN

(* ===================== vocabulary of the properties ==================== *)
\* positions (1-based) of the entries of s equal to v
Positions(s, v) == {i \in 1 .. Len(s) : s[i] = v}
NumUnknown(s) == Cardinality(Positions(s, -1))
HasZero(s) == Positions(s, 0) # {}

\* rule 2 violated at i: a negative entry other than -1
BadValueAt(s, i) == s[i] < -1
\* rule 3 violated at i: a 0 at 0-based position i - 1 >= rank
BadZeroAt(s, rank, i) == s[i] = 0 /\ i - 1 >= rank
Offending(s, rank) ==
    {i \in 1 .. Len(s) : BadValueAt(s, i) \/ BadZeroAt(s, rank, i)}
\* the smallest element of a non-empty set of positions
First(S) == CHOOSE i \in S : \A j \in S : i <= j

\* rules 1 to 4 of the validation
PassesValidation(s, rank) ==
    /\ s # <<>>
    /\ Offending(s, rank) = {}
    /\ NumUnknown(s) <= 1

\* the entries of s other than -1, in order
OtherDims(s) == SelectSeq(s, LAMBDA d : d # -1)

\* {n / product(ds)} when the product of the positive entries ds divides n
\* exactly, {} when it does not; by successive division, so that the
\* product itself (which may exceed any machine width) is never formed
RECURSIVE ExactQuot(_, _)
ExactQuot(n, ds) ==
    IF ds = <<>> THEN {n}
    ELSE IF n % Head(ds) = 0 THEN ExactQuot(n \div Head(ds), Tail(ds))
    ELSE {}

\* s with its entry at position i replaced by v
Replaced(s, i, v) == [s EXCEPT ![i] = v]

\* ReshapeOp::InferShape has run in a context that has X and Out
Resolved == hasX /\ hasOut /\ status # "NotRun"

\* ... on a valid spec without 0 and with exactly one -1
InferCase ==
    /\ Resolved
    /\ PassesValidation(shape, Len(xDims))
    /\ ~HasZero(shape)
    /\ NumUnknown(shape) = 1

\* ... on a valid spec whose entries are all positive
ExplicitCase ==
    /\ Resolved
    /\ PassesValidation(shape, Len(xDims))
    /\ ~HasZero(shape)
    /\ NumUnknown(shape) = 0

(* ============================== C1 ===================================== *)
\* C1: on a valid spec with no 0 and exactly one -1, InferShape succeeds
\* exactly when the product of the other entries divides product(InputShape);
\* the output is then the spec with -1 replaced by the exact quotient and
\* nothing is deferred; otherwise it fails with ShapeMismatchError.
C1_InferredDimIsExactQuotient ==
    InferCase =>
        LET q == ExactQuot(product(xDims), OtherDims(shape))
            k == First(Positions(shape, -1))
        IN  IF q # {}
            THEN /\ status = "OK"
                 /\ ~need_copy_dim
                 /\ \E v \in q : outDims = Replaced(shape, k, v)
            ELSE status = "ShapeMismatchError"

(* ============================== C2 ===================================== *)
\* C2: on a valid spec with only positive entries, resolution succeeds (with
\* the spec verbatim, not deferred) only when product(ShapeSpec) equals
\* product(InputShape), and fails with ShapeMismatchError when they differ.
C2_ExplicitShapeMustMatch ==
    ExplicitCase =>
        IF ExactQuot(product(xDims), shape) = {1}
        THEN status = "OK" /\ ~need_copy_dim /\ outDims = shape
        ELSE status = "ShapeMismatchError"

(* ============================== C3 ===================================== *)
\* C3 as stated: a spec with two or more -1 fails with
\* MultipleInferredDimsError whatever its other entries are.
C3_Original ==
    (Resolved /\ NumUnknown(shape) >= 2)
        => status = "MultipleInferredDimsError"

\* C3 amended: a spec with two or more -1 always fails, and before any
\* capacity or inferred dimension is computed; the error is
\* MultipleInferredDimsError when every other entry passes rules 2 and 3,
\* and otherwise the error of the first entry that violates rule 2 or 3.
C3_MultipleUnknownRejected ==
    (Resolved /\ NumUnknown(shape) >= 2) =>
        /\ capacity = NoVal /\ inferred_dim = NoVal
        /\ outDims = NoDims
        /\ IF Offending(shape, Len(xDims)) = {}
           THEN status = "MultipleInferredDimsError"
           ELSE status \in {"InvalidDimensionError", "IndexOutOfRangeError"}

C3_Witness ==
    /\ Resolved
    /\ status = "MultipleInferredDimsError"
    /\ NumUnknown(shape) = 2
    /\ HasZero(shape)

(* ============================== C4 ===================================== *)
\* C4 as stated: a spec with a 0 at a position >= rank(InputShape) always
\* fails with IndexOutOfRangeError.
C4_Original ==
    (Resolved /\ \E i \in 1 .. Len(shape) : BadZeroAt(shape, Len(xDims), i))
        => status = "IndexOutOfRangeError"

\* C4 amended: a spec with a 0 at a position >= rank(InputShape) always
\* fails: with IndexOutOfRangeError when no entry before the first such 0 is
\* below -1, with InvalidDimensionError otherwise.  IndexOutOfRangeError is
\* raised only for such a 0, never for a 0 at a position < rank, and a valid
\* spec may hold several 0s.
C4_ZeroBeyondRankRejected ==
    Resolved =>
        LET rank == Len(xDims)
            Z == {i \in 1 .. Len(shape) : BadZeroAt(shape, rank, i)}
        IN  /\ Z # {} =>
                IF \E j \in 1 .. First(Z) - 1 : BadValueAt(shape, j)
                THEN status = "InvalidDimensionError"
                ELSE status = "IndexOutOfRangeError"
            /\ status = "IndexOutOfRangeError" => Z # {}
            /\ (PassesValidation(shape, rank)
                  /\ Cardinality(Positions(shape, 0)) >= 2)
                 => status = "OK"

C4_Witness ==
    /\ Resolved
    /\ status = "IndexOutOfRangeError"
    /\ Len(shape) = Len(xDims) + 1
    /\ shape[Len(shape)] = 0
    /\ shape[1] = 0

C6_Original ==
    Resolved =>
        LET rank == Len(xDims)
            idx == 1 .. Len(shape)
        IN  IF shape = <<>> THEN status = "EmptySpecError"
            ELSE IF \E i \in idx : BadValueAt(shape, i)
            THEN status = "InvalidDimensionError"
            ELSE IF \E i \in idx : BadZeroAt(shape, rank, i)
            THEN status = "IndexOutOfRangeError"
            ELSE IF NumUnknown(shape) >= 2
            THEN status = "MultipleInferredDimsError"
            ELSE TRUE

\* C6 amended: rule 1 is checked first; rules 2 and 3 are checked together,
\* entry by entry, so the error is that of the first position violating
\* either of them; rule 4 is checked only when no entry violates rule 2
\* or 3; a spec violating none of the rules raises none of the four errors.
C6_FirstOffendingEntryDecides ==
    Resolved =>
        LET rank == Len(xDims)
            bad == Offending(shape, rank)
        IN  IF shape = <<>> THEN status = "EmptySpecError"
            ELSE IF bad # {}
            THEN IF BadValueAt(shape, First(bad))
                 THEN status = "InvalidDimensionError"
                 ELSE status = "IndexOutOfRangeError"
            ELSE IF NumUnknown(shape) >= 2
            THEN status = "MultipleInferredDimsError"
            ELSE status \notin {"EmptySpecError", "InvalidDimensionError",
                                "IndexOutOfRangeError",
                                "MultipleInferredDimsError"}

\* an out-of-range 0 followed by an entry below -1
C6_Witness ==
    /\ Resolved
    /\ status = "IndexOutOfRangeError"
    /\ \E i, j \in 1 .. Len(shape) :
          i < j /\ BadZeroAt(shape, Len(xDims), i) /\ BadValueAt(shape, j)

(* ============================== C7 ===================================== *)
\* C7: a step in which ReshapeOp::InferShape fails, with whatever error,
\* leaves the dims and the LoD of Out as they were before the call.
C7_ErrorLeavesOutputUntouched ==
    [][(status = "NotRun" /\ status' \in Errors)
          => (outDims' = outDims /\ outLoD' = outLoD)]_vars

\* a failure after ValidateShape had already filled its output_shape
C7_Witness ==
    /\ status = "ShapeMismatchError"
    /\ output_shape = shape
    /\ inferred_dim = <<0>>
    /\ outDims = NoDims
    /\ outLoD = NoLoD

(* ============================== C8 ===================================== *)
\* C8: after a successful forward resolution, deferred or not, the gradient
\* resolution gives X@GRAD exactly the dims of X whenever X and Out@GRAD
\* exist, whatever the spec and the dims of Out; and when X or Out@GRAD is
\* absent it fails and sets no dims.
C8_GradRestoresInputShape ==
    gradStatus # "NotRun" =>
        /\ (hasX /\ hasOutGrad) => (gradStatus = "OK" /\ xGradDims = xDims)
        /\ ~(hasX /\ hasOutGrad) => (gradStatus # "OK" /\ xGradDims = NoDims)
        /\ (status = "OK" /\ hasOutGrad) => xGradDims = xDims

C8_Witness ==
    /\ status = "OK"
    /\ ~need_copy_dim
    /\ outDims # xDims
    /\ gradStatus = "OK"
    /\ xGradDims = xDims

(* ============================== C9 ===================================== *)
\* C9: a step in which the forward resolution succeeds, resolved or
\* deferred, leaves Out with the LoD of X, and no step changes the dims or
\* the LoD of X.
C9_LoDPassedThrough ==
    [][/\ (status = "NotRun" /\ status' = "OK") => outLoD' = xLoD
       /\ xDims' = xDims
       /\ xLoD' = xLoD]_vars

C9_Witness ==
    /\ status = "OK"
    /\ need_copy_dim
    /\ outLoD = xLoD
    /\ outLoD \in LoDs
    /\ outDims # shape

(* ============================== C10 ==================================== *)
\* C10: in the -1 inference path the divisor -capacity is nonzero and is the
\* exact product of the positive entries of the spec, so that accumulating
\* in 32 bits changes neither the acceptance nor the inferred dimension.
C10_DivisorIsExactProduct ==
    InferCase =>
        LET q == ExactQuot(product(xDims), OtherDims(shape))
        IN  /\ status # "SIGFPE"
            /\ capacity # <<0>>
            /\ ExactQuot(-capacity[1], OtherDims(shape)) = {1}
            /\ status = "OK" <=> q # {}
            /\ status = "OK" => q = {inferred_dim[1]}

====
